---- MODULE Spec2Model ----
(***************************************************************************)
(* Model of the Flask application in src/app/__init__.py: the users and    *)
(* things tables, the per-browser session, and one action per route        *)
(* handler.  Text values (user names, thing names) are sequences of        *)
(* one-character strings so that html.escape is modelled by what it does.  *)
(* The teams and players tables are read-only and are fixed data.  Form     *)
(* fields are taken to be present in every POST.                           *)
(***************************************************************************)
EXTENDS Integers, Sequences, FiniteSets, TLC

VARIABLES users, things, session, request, response

vars == <<users, things, session, request, response>>

(* ------------------------------------------------------------------ *)
(* Bounds and input sets                                              *)
(* ------------------------------------------------------------------ *)

\* Cap on the number of rows in the users table.
MaxUsers == 2

\* Cap on the number of rows in the things table.
MaxThings == 2

\* Browser clients, each with its own session cookie.
Clients == { 1, 2 }

\* Ids a client may name in /thing/<id> and /delete/<id>.
ThingIds == { 1, 2 }

\* Raw username form values: a plain one, one that is an HTML-significant
\* character, and one that is the escaped form of that character.
Usernames == { <<"b">>, <<"<">>, <<"&", "l", "t", ";">> }

Passwords == { "pw1", "pw2" }

\* Raw thing-name form values.
ThingNames == { <<"B", "i", "k", "e">>, <<"<">> }

Prices == { 50 }

(* ------------------------------------------------------------------ *)
(* Library functions                                                  *)
(* ------------------------------------------------------------------ *)

\* html.escape on one character (quote=True is the default).
EscapeChar(ch) ==
    CASE ch = "&"  -> <<"&", "a", "m", "p", ";">>
      [] ch = "<"  -> <<"&", "l", "t", ";">>
      [] ch = ">"  -> <<"&", "g", "t", ";">>
      [] ch = "\"" -> <<"&", "q", "u", "o", "t", ";">>
      [] ch = "'"  -> <<"&", "#", "x", "2", "7", ";">>
      [] OTHER     -> <<ch>>

RECURSIVE Escape(_)
\* html.escape on a string.
Escape(s) ==
    IF s = <<>> THEN <<>> ELSE EscapeChar(Head(s)) \o Escape(Tail(s))

\* werkzeug generate_password_hash: an opaque one-way value of the password.
GeneratePasswordHash(password) == <<"pbkdf2", password>>

\* werkzeug check_password_hash.
CheckPasswordHash(hash, password) == hash = GeneratePasswordHash(password)

\* Byte value of a character (SQLite BINARY collation compares bytes).
CharCode(ch) ==
    CASE ch = "#" -> 35 [] ch = "&" -> 38 [] ch = "2" -> 50 [] ch = "7" -> 55
      [] ch = ";" -> 59 [] ch = "<" -> 60 [] ch = "B" -> 66 [] ch = "a" -> 97
      [] ch = "b" -> 98 [] ch = "e" -> 101 [] ch = "g" -> 103
      [] ch = "i" -> 105 [] ch = "k" -> 107 [] ch = "l" -> 108
      [] ch = "m" -> 109 [] ch = "o" -> 111 [] ch = "p" -> 112
      [] ch = "q" -> 113 [] ch = "t" -> 116 [] ch = "u" -> 117
      [] ch = "x" -> 120 [] OTHER -> 0

RECURSIVE TextLeq(_, _)
\* s <= t in the ORDER BY ... ASC order of text values.
TextLeq(s, t) ==
    IF s = <<>> THEN TRUE
    ELSE IF t = <<>> THEN FALSE
    ELSE IF CharCode(Head(s)) # CharCode(Head(t))
         THEN CharCode(Head(s)) < CharCode(Head(t))
         ELSE TextLeq(Tail(s), Tail(t))

(* ------------------------------------------------------------------ *)
(* Session                                                            *)
(* ------------------------------------------------------------------ *)

\* The empty session (no keys).
EmptySession == [k \in {} |-> 0]

\* session[key] = value
SessionSet(s, key, value) ==
    [k \in (DOMAIN s) \cup {key} |-> IF k = key THEN value ELSE s[k]]

\* session.pop(key, None)
SessionPop(s, key) == [k \in (DOMAIN s) \ {key} |-> s[k]]

(* ------------------------------------------------------------------ *)
(* Requests and responses                                             *)
(* ------------------------------------------------------------------ *)

NoText == <<>>

NoFlash == [msg |-> "", arg |-> NoText, category |-> ""]

\* flash(message, category); arg is the value interpolated in an f-string.
Flash(msg, arg, category) == [msg |-> msg, arg |-> arg, category |-> category]

NoResponse == [kind |-> "none", target |-> "", flash |-> NoFlash, data |-> <<>>]

\* redirect(target), with the flash the handler set before it.
Redirect(target, flash) ==
    [kind |-> "redirect", target |-> target, flash |-> flash, data |-> <<>>]

\* render_template(page, ...), data being the rows handed to the template.
RenderTemplate(page, data) ==
    [kind |-> "render", target |-> page, flash |-> NoFlash, data |-> data]

\* not_found_error() and abort(404): the 404 response.
NotFoundError ==
    [kind |-> "not_found", target |-> "", flash |-> NoFlash, data |-> <<>>]

\* The generic error page an unhandled exception ends in.
InternalServerError ==
    [kind |-> "server_error", target |-> "", flash |-> NoFlash, data |-> <<>>]

NoForm == [username |-> NoText, password |-> "", name |-> NoText, price |-> 0]

Req(c, method, route, id, form) ==
    [client |-> c, method |-> method, route |-> route, id |-> id, form |-> form]

NoRequest == Req(0, "", "", 0, NoForm)

(* ------------------------------------------------------------------ *)
(* Store                                                              *)
(* ------------------------------------------------------------------ *)

UserRow(id, username, password) ==
    [id |-> id, username |-> username, password |-> password]

ThingRow(id, name, price, user_id) ==
    [id |-> id, name |-> name, price |-> price, user_id |-> user_id]

\* The users column the things queries read as users.name: the schema is
\* users(id, username, password), the owner's name being the username.
OwnerName(user) == user.username

\* SELECT * FROM users WHERE username = ?  (rows in rowid order)
SelectUsers(username) == SelectSeq(users, LAMBDA u : u.username = username)

\* The UNIQUE constraint on users.username that INSERT OR IGNORE trips on.
UsernameConflict(username) == SelectUsers(username) # <<>>

\* Row id given to the next inserted thing (one more than the largest).
NextThingId ==
    IF things = {} THEN 1
    ELSE 1 + CHOOSE m \in {t.id : t \in things} : \A t \in things : t.id <= m

\* The teams and players tables, which no handler writes.
Teams ==
    { [code |-> "t1", name |-> "Reds", image_data |-> "png-bytes", image_mime |-> "image/png"],
      [code |-> "t2", name |-> "Blues", image_data |-> "", image_mime |-> ""] }

Players == { [id |-> 1, team |-> "t1"], [id |-> 2, team |-> "t1"] }

\* Team codes a client may name in /team-image/<code>.
TeamCodes == { "t1", "t2", "zz" }

\* Contents of the database when the application starts: the store is a
\* persistent external database, so it may be empty or already hold rows.
SeedStores ==
    { [users |-> <<>>, things |-> {}],
      [users |-> <<UserRow(1, <<"b">>, GeneratePasswordHash("pw1"))>>,
       things |-> {ThingRow(1, <<"B", "i", "k", "e">>, 50, 1)}] }

(* ------------------------------------------------------------------ *)
(* Initial state                                                      *)
(* ------------------------------------------------------------------ *)

Init ==
    /\ \E seed \in SeedStores : users = seed.users /\ things = seed.things
    /\ session = [c \in Clients |-> EmptySession]
    /\ request = NoRequest
    /\ response = NoResponse

(* ------------------------------------------------------------------ *)
(* Authorization gate                                                 *)
(* ------------------------------------------------------------------ *)

\* login_required: the wrapped handler runs only if the session has user_id.
LoginRequired(s) == "user_id" \in DOMAIN s

\* What the gate answers when it short-circuits the handler.
GateRedirect == Redirect("/login", NoFlash)

(* ------------------------------------------------------------------ *)
(* Route handlers                                                     *)
(* ------------------------------------------------------------------ *)

\* teams LEFT JOIN players, grouped by team code with the player count.
TeamCounts ==
    { [code |-> t.code, name |-> t.name,
       player_count |-> Cardinality({ pl \in Players : pl.team = t.code })] :
        t \in Teams }

\* The possible results of ORDER BY player_count DESC over a set of rows.
OrderedByCountDesc(rows) ==
    { s \in [1..Cardinality(rows) -> rows] :
        /\ \A i, j \in DOMAIN s : i # j => s[i] # s[j]
        /\ \A i, j \in DOMAIN s : i < j => s[i].player_count >= s[j].player_count }

\* GET /
Index(c) ==
    /\ request' = Req(c, "GET", "/", 0, NoForm)
    /\ \E teams \in OrderedByCountDesc(TeamCounts) :
          response' = RenderTemplate("pages/home.jinja", teams)
    /\ UNCHANGED <<users, things, session>>

\* GET /team-image/<code>; an empty value stands for a NULL or empty column.
TeamImage(c, code) ==
    /\ request' = Req(c, "GET", "/team-image/<code>", 0, NoForm)
    /\ LET rows == { t \in Teams : t.code = code }
       IN  IF rows = {} \/ \E t \in rows : t.image_data = "" \/ t.image_mime = ""
           THEN response' = NotFoundError
           ELSE \E row \in rows :
                   response' = [kind |-> "bytes", target |-> row.image_mime,
                                flash |-> NoFlash, data |-> <<row.image_data>>]
    /\ UNCHANGED <<users, things, session>>

\* GET /about/
About(c) ==
    /\ request' = Req(c, "GET", "/about/", 0, NoForm)
    /\ response' = RenderTemplate("pages/about.jinja", <<>>)
    /\ UNCHANGED <<users, things, session>>

\* things JOIN users ON things.user_id = users.id, as list rows.
JoinedThings ==
    { [id |-> t.id, name |-> t.name, price |-> t.price, user_id |-> t.user_id,
       owner |-> OwnerName(users[i])] :
        <<t, i>> \in { p \in things \X DOMAIN users : p[1].user_id = users[p[2]].id } }

\* The possible results of ORDER BY name ASC over a set of rows.
OrderedByName(rows) ==
    { s \in [1..Cardinality(rows) -> rows] :
        /\ \A i, j \in DOMAIN s : i # j => s[i] # s[j]
        /\ \A i, j \in DOMAIN s : i < j => TextLeq(s[i].name, s[j].name) }

\* The columns the list query selects.
ListColumns(row) == [id |-> row.id, name |-> row.name, owner |-> row.owner]

\* GET /things/
ShowAllThings(c) ==
    /\ request' = Req(c, "GET", "/things/", 0, NoForm)
    /\ \E rows \in OrderedByName(JoinedThings) :
          response' = RenderTemplate("pages/things.jinja",
                         [i \in DOMAIN rows |-> ListColumns(rows[i])])
    /\ UNCHANGED <<users, things, session>>

\* ShowOneThing with the WHERE things.id=? clause left out of the query.
ShowOneThing_NoWhere(c, id) ==
    /\ request' = Req(c, "GET", "/thing/<int:id>", id, NoForm)
    /\ LET rows == JoinedThings
       IN  IF rows # {}
           THEN \E thing \in rows :
                   response' = RenderTemplate("pages/thing.jinja", <<thing>>)
           ELSE response' = NotFoundError
    /\ UNCHANGED <<users, things, session>>

\* GET /thing/<int:id>
ShowOneThing(c, id) ==
    /\ request' = Req(c, "GET", "/thing/<int:id>", id, NoForm)
    /\ LET rows == { r \in JoinedThings : r.id = id }
       IN  IF rows # {}
           THEN \E thing \in rows :
                   response' = RenderTemplate("pages/thing.jinja", <<thing>>)
           ELSE response' = NotFoundError
    /\ UNCHANGED <<users, things, session>>

\* AddThing without the login_required decorator: reading the missing
\* session key raises, which ends in the error page.
AddThing_NoGate(c, name, price) ==
    /\ LoginRequired(session[c]) => Cardinality(things) < MaxThings
    /\ request' = Req(c, "POST", "/add", 0,
                      [NoForm EXCEPT !.name = name, !.price = price])
    /\ IF "user_id" \notin DOMAIN session[c]
       THEN /\ response' = InternalServerError
            /\ UNCHANGED <<users, things, session>>
       ELSE LET escaped == Escape(name)
                user_id == session[c]["user_id"]
            IN  /\ things' = things \cup
                       {ThingRow(NextThingId, escaped, price, user_id)}
                /\ response' = Redirect("/things",
                       Flash("Thing '{name}' added", escaped, "success"))
                /\ UNCHANGED <<users, session>>

\* POST /add
AddThing(c, name, price) ==
    /\ LoginRequired(session[c]) => Cardinality(things) < MaxThings
    /\ request' = Req(c, "POST", "/add", 0,
                      [NoForm EXCEPT !.name = name, !.price = price])
    /\ IF ~LoginRequired(session[c])
       THEN /\ response' = GateRedirect
            /\ UNCHANGED <<users, things, session>>
       ELSE LET escaped == Escape(name)
                user_id == session[c]["user_id"]
            IN  /\ things' = things \cup
                       {ThingRow(NextThingId, escaped, price, user_id)}
                /\ response' = Redirect("/things",
                       Flash("Thing '{name}' added", escaped, "success"))
                /\ UNCHANGED <<users, session>>

\* GET /delete/<int:id>
DeleteThing(c, id) ==
    /\ request' = Req(c, "GET", "/delete/<int:id>", id, NoForm)
    /\ IF ~LoginRequired(session[c])
       THEN /\ response' = GateRedirect
            /\ UNCHANGED <<users, things, session>>
       ELSE LET user_id == session[c]["user_id"]
            IN  /\ things' = { t \in things : ~(t.id = id /\ t.user_id = user_id) }
                /\ response' = Redirect("/things",
                       Flash("Thing deleted", NoText, "success"))
                /\ UNCHANGED <<users, session>>

\* GET /register
RegisterForm(c) ==
    /\ request' = Req(c, "GET", "/register", 0, NoForm)
    /\ response' = RenderTemplate("pages/register.jinja", <<>>)
    /\ UNCHANGED <<users, things, session>>

\* GET /login
LoginForm(c) ==
    /\ request' = Req(c, "GET", "/login", 0, NoForm)
    /\ response' = RenderTemplate("pages/login.jinja", <<>>)
    /\ UNCHANGED <<users, things, session>>

\* AddUser without the rows_affected test: the success branch always runs.
AddUser_NoRowsAffectedTest(c, username, password) ==
    LET escaped == Escape(username)
        hash == GeneratePasswordHash(password)
        rows_affected == IF UsernameConflict(escaped) THEN 0 ELSE 1
        last_insert_rowid == Len(users) + rows_affected
    IN  /\ rows_affected = 1 => Len(users) < MaxUsers
        /\ request' = Req(c, "POST", "/add-user", 0,
                 [NoForm EXCEPT !.username = username, !.password = password])
        /\ users' = IF rows_affected = 1
                    THEN Append(users, UserRow(last_insert_rowid, escaped, hash))
                    ELSE users
        /\ session' = [session EXCEPT ![c] =
              SessionSet(SessionSet(@, "userid", last_insert_rowid),
                         "username", escaped)]
        /\ response' = Redirect("/",
              Flash("User {username} registered successfully", escaped, "success"))
        /\ UNCHANGED things

\* POST /add-user
AddUser(c, username, password) ==
    LET escaped == Escape(username)
        hash == GeneratePasswordHash(password)
        rows_affected == IF UsernameConflict(escaped) THEN 0 ELSE 1
        last_insert_rowid == Len(users) + 1
    IN  /\ rows_affected = 1 => Len(users) < MaxUsers
        /\ request' = Req(c, "POST", "/add-user", 0,
                 [NoForm EXCEPT !.username = username, !.password = password])
        /\ IF rows_affected = 0
           THEN /\ response' = Redirect("/signup/",
                      Flash("Username already exists.", NoText, "error"))
                /\ UNCHANGED <<users, things, session>>
           ELSE /\ users' = Append(users, UserRow(last_insert_rowid, escaped, hash))
                /\ session' = [session EXCEPT ![c] =
                      SessionSet(SessionSet(@, "userid", last_insert_rowid),
                                 "username", escaped)]
                /\ response' = Redirect("/",
                      Flash("User {username} registered successfully", escaped, "success"))
                /\ UNCHANGED things

\* LoginUser with a separate failure answer for an unknown username.
LoginUser_SeparateFailures(c, username, password) ==
    LET rows == SelectUsers(username)
    IN  /\ request' = Req(c, "POST", "/login-user", 0,
                 [NoForm EXCEPT !.username = username, !.password = password])
        /\ IF rows # <<>> /\ CheckPasswordHash(rows[1].password, password)
           THEN /\ session' = [session EXCEPT ![c] =
                      SessionSet(SessionSet(@, "userid", rows[1].id),
                                 "username", rows[1].username)]
                /\ response' = Redirect("/", Flash("Login successful", NoText, "success"))
           ELSE /\ response' = Redirect("/login",
                      Flash(IF rows = <<>> THEN "Unknown user" ELSE "Invalid credentials",
                            NoText, "error"))
                /\ UNCHANGED session
        /\ UNCHANGED <<users, things>>

\* POST /login-user
LoginUser(c, username, password) ==
    LET rows == SelectUsers(username)
    IN  /\ request' = Req(c, "POST", "/login-user", 0,
                 [NoForm EXCEPT !.username = username, !.password = password])
        /\ IF rows # <<>> /\ CheckPasswordHash(rows[1].password, password)
           THEN /\ session' = [session EXCEPT ![c] =
                      SessionSet(SessionSet(@, "userid", rows[1].id),
                                 "username", rows[1].username)]
                /\ response' = Redirect("/", Flash("Login successful", NoText, "success"))
           ELSE /\ response' = Redirect("/login",
                      Flash("Invalid credentials", NoText, "error"))
                /\ UNCHANGED session
        /\ UNCHANGED <<users, things>>

\* Logout popping the key the gated handlers read instead of the key the
\* login handlers write.
Logout_OtherKey(c) ==
    /\ request' = Req(c, "GET", "/logout", 0, NoForm)
    /\ session' = [session EXCEPT ![c] = SessionPop(SessionPop(@, "user_id"), "username")]
    /\ response' = Redirect("/", Flash("Logged out successfully", NoText, "success"))
    /\ UNCHANGED <<users, things>>

\* GET /logout
Logout(c) ==
    /\ request' = Req(c, "GET", "/logout", 0, NoForm)
    /\ session' = [session EXCEPT ![c] = SessionPop(SessionPop(@, "userid"), "username")]
    /\ response' = Redirect("/", Flash("Logged out successfully", NoText, "success"))
    /\ UNCHANGED <<users, things>>

(* ------------------------------------------------------------------ *)
(* Router                                                             *)
(* ------------------------------------------------------------------ *)

\* The parameterless paths the route table serves with GET.
GetPaths == { "/", "/about/", "/things/", "/register", "/login", "/logout" }

\* The route a GET of path reaches: the path itself, or the path with a
\* trailing slash when only that form is registered; "" when none matches.
MatchGet(path) ==
    IF path \in GetPaths THEN path
    ELSE IF (path \o "/") \in GetPaths THEN path \o "/"
    ELSE ""

\* The client follows the redirect it was last answered with.
FollowRedirect(c) ==
    /\ response.kind = "redirect"
    /\ request.client = c
    /\ LET route == MatchGet(response.target)
       IN  CASE route = "/"         -> Index(c)
             [] route = "/about/"   -> About(c)
             [] route = "/things/"  -> ShowAllThings(c)
             [] route = "/register" -> RegisterForm(c)
             [] route = "/login"    -> LoginForm(c)
             [] route = "/logout"   -> Logout(c)
             [] OTHER ->
                  /\ request' = Req(c, "GET", response.target, 0, NoForm)
                  /\ response' = NotFoundError
                  /\ UNCHANGED <<users, things, session>>

(* ------------------------------------------------------------------ *)
(* Specification                                                      *)
(* ------------------------------------------------------------------ *)

Next ==
    \/ \E c \in Clients : Index(c)
    \/ \E c \in Clients, code \in TeamCodes : TeamImage(c, code)
    \/ \E c \in Clients : About(c)
    \/ \E c \in Clients : ShowAllThings(c)
    \/ \E c \in Clients, id \in ThingIds : ShowOneThing(c, id)
    \/ \E c \in Clients, name \in ThingNames, price \in Prices : AddThing(c, name, price)
    \/ \E c \in Clients, id \in ThingIds : DeleteThing(c, id)
    \/ \E c \in Clients : RegisterForm(c)
    \/ \E c \in Clients : LoginForm(c)
    \/ \E c \in Clients, u \in Usernames, p \in Passwords : AddUser(c, u, p)
    \/ \E c \in Clients, u \in Usernames, p \in Passwords : LoginUser(c, u, p)
    \/ \E c \in Clients : Logout(c)
    \/ \E c \in Clients : FollowRedirect(c)

Spec == Init /\ [][Next]_vars


(* ------------------------------------------------------------------ *)
(* Properties                                                         *)
(* ------------------------------------------------------------------ *)

\* The session keys that carry an identity.
IdentityKeys == { "user_id", "userid", "username" }

\* The session holds no identity at all.
NoIdentity(s) == (DOMAIN s) \cap IdentityKeys = {}

\* The usernames held by the users table.
StoredUsernames == { users[i].username : i \in DOMAIN users }

\* C1: a POST /add issued in the same session right after a successful
\* registration or login is treated as authenticated as that user: it is not
\* redirected to login, it inserts a Thing, and the Thing is listed with that
\* user as owner.
C1_AddAfterLoginInserts ==
    [][\A c \in Clients, name \in ThingNames, price \in Prices :
         ( /\ request.client = c
           /\ request.route \in {"/add-user", "/login-user"}
           /\ response.kind = "redirect" /\ response.target = "/"
           /\ AddThing(c, name, price) )
         => /\ response'.kind = "redirect" /\ response'.target = "/things"
            /\ \E r \in JoinedThings' :
                  /\ r \notin JoinedThings
                  /\ r.name = Escape(name)
                  /\ r.user_id = session[c]["userid"]
                  /\ r.owner = session[c]["username"]]_vars

\* C2: from a session that holds no identity, POST /add and GET /delete/{id}
\* answer with a redirect to the login page and leave the users and things
\* tables as they were.
C2_GateRedirectsWithoutIdentity ==
    [][\A c \in Clients :
         ( /\ NoIdentity(session[c])
           /\ \/ \E name \in ThingNames, price \in Prices : AddThing(c, name, price)
              \/ \E id \in ThingIds : DeleteThing(c, id) )
         => /\ response'.kind = "redirect" /\ response'.target = "/login"
            /\ users' = users
            /\ things' = things]_vars

\* C2 witness: a delete naming a stored Thing was answered by the gate's
\* redirect for a session without identity, and the Thing is still stored.
C2_Witness ==
    /\ request.route = "/delete/<int:id>"
    /\ NoIdentity(session[request.client])
    /\ response = GateRedirect
    /\ \E t \in things : t.id = request.id

\* C3: GET /delete/{id} from a session whose identity is not the Thing's owner
\* leaves the Thing rows unchanged and is answered by a redirect to the things
\* list with a success flash.
C3_NonOwnerDeleteReportsSuccess ==
    [][\A c \in Clients, id \in ThingIds :
         ( /\ "userid" \in DOMAIN session[c]
           /\ \E t \in things : t.id = id /\ t.user_id # session[c]["userid"]
           /\ DeleteThing(c, id) )
         => /\ things' = things
            /\ response' = Redirect("/things", Flash("Thing deleted", NoText, "success"))]_vars

\* C4: the users table never holds two rows with the same username, and a
\* POST /add-user whose username is already stored adds no row, flashes the
\* error "Username already exists." and leaves every session as it was.
C4_DuplicateUsernameRejected ==
    /\ [](\A i, j \in DOMAIN users : users[i].username = users[j].username => i = j)
    /\ [][\A c \in Clients, u \in Usernames, p \in Passwords :
            (Escape(u) \in StoredUsernames /\ AddUser(c, u, p))
            => /\ users' = users
               /\ session' = session
               /\ response'.kind = "redirect"
               /\ response'.flash = Flash("Username already exists.", NoText, "error")]_vars

\* C4 witness: a registration was refused while its client's session holds
\* an identity other than the user of that name.
C4_Witness ==
    /\ request.route = "/add-user"
    /\ response.flash.msg = "Username already exists."
    /\ Escape(request.form.username) \in StoredUsernames
    /\ "userid" \in DOMAIN session[request.client]
    /\ session[request.client]["username"] # Escape(request.form.username)

\* C5: POST /login-user with a known username and a wrong password and with
\* an unknown username get the same answer: the flash "Invalid credentials"
\* of category error, a redirect to /login, and no change to the session or
\* the store.
C5_LoginFailuresIndistinguishable ==
    [][\A c \in Clients, u \in Usernames, p \in Passwords :
         ( /\ \/ u \notin StoredUsernames
              \/ \E i \in DOMAIN users :
                    /\ users[i].username = u
                    /\ users[i].password # GeneratePasswordHash(p)
           /\ LoginUser(c, u, p) )
         => /\ response' = Redirect("/login", Flash("Invalid credentials", NoText, "error"))
            /\ session' = session
            /\ users' = users
            /\ things' = things]_vars

\* C5 witness: a login with a stored username and a wrong password was
\* refused in a session that holds another login's identity.
C5_Witness ==
    /\ request.route = "/login-user"
    /\ response.target = "/login"
    /\ \E i \in DOMAIN users :
          /\ users[i].username = request.form.username
          /\ users[i].password # GeneratePasswordHash(request.form.password)
    /\ "userid" \in DOMAIN session[request.client]

C8_LogoutClearsIdentity ==
    [][\A c \in Clients :
         Logout(c)
         => /\ NoIdentity(session'[c])
            /\ NoIdentity(session[c]) => session' = session
            /\ \A d \in Clients \ {c} : session'[d] = session[d]
            /\ users' = users
            /\ things' = things
            /\ response'.kind = "redirect" /\ response'.target = "/"
            /\ ~LoginRequired(session'[c])]_vars

\* C8 witness: a logout was answered and its session holds no identity,
\* while the other client's session still holds the identity of a login.
C8_Witness ==
    /\ request.route = "/logout"
    /\ request.client = 1
    /\ NoIdentity(session[1])
    /\ "userid" \in DOMAIN session[2]

\* C9: if POST /add-user with (u, p) created a user, a later POST /login-user
\* with the same (u, p) succeeds and sets the session identity to that user's
\* id.
C9_RegisterThenLogin ==
    [][\A c \in Clients, u \in Usernames, p \in Passwords :
         ( /\ \E i \in DOMAIN users :
                 /\ users[i].username = Escape(u)
                 /\ users[i].password = GeneratePasswordHash(p)
           /\ LoginUser(c, u, p) )
         => /\ response' = Redirect("/", Flash("Login successful", NoText, "success"))
            /\ \E i \in DOMAIN users :
                 /\ users[i].username = Escape(u)
                 /\ session'[c]["userid"] = users[i].id]_vars

\* C10: every redirect a handler issues targets a path the route table
\* serves with GET, up to the router's trailing-slash normalisation.
C10_RedirectTargetsServed ==
    response.kind = "redirect" => MatchGet(response.target) # ""

====
